---- MODULE Spec2Model ----
(***************************************************************************)
(* Prediction-market engine of anonn-backend: the Market model             *)
(* (marketSchema, positionSchema, isExpired, updatePrices) and the         *)
(* controller handlers createMarket and tradeMarket.                       *)
(*                                                                         *)
(* One market document lives in the database (variable market).  Every     *)
(* trade request runs tradeMarket in three steps separated by the awaits   *)
(* of the handler: Load (await Market.findById), Execute (the synchronous  *)
(* code between the two awaits: the closed check and the in-memory buy),   *)
(* Save (await market.save(): schema validation, then one atomic update    *)
(* of the stored document with the changes the handler made).              *)
(*                                                                         *)
(* JavaScript numbers are modelled as exact rationals <<num, den>> in      *)
(* lowest terms; share amounts in requests are integers.                   *)
(***************************************************************************)
EXTENDS Integers, Sequences, FiniteSets, TLC

\* ---- bounds of the model ----
NumReqs == 2        \* trade requests served (one per slot, any overlap)
MaxTime == 2        \* the clock runs 0..MaxTime
MaxShares == 2      \* largest share amount a request carries

Reqs == 1..NumReqs
Users == {"u1", "u2"}
Options == {"yes", "no", "maybe"}        \* req.body.option: 'maybe' is outside the enum
Actions == {"buy", "sell", "none"}       \* req.body.action: 'none' is a missing action
ShareAmounts == (0 - 1)..MaxShares       \* req.body.shares, negative included
ExpiryTimes == {1}                       \* req.body.expiresAt: the clock passes it

\* ---- exact rationals for JavaScript numbers ----
RECURSIVE GCD(_, _)
GCD(a, b) == IF b = 0 THEN a ELSE GCD(b, a % b)

Abs(x) == IF x < 0 THEN 0 - x ELSE x

\* n/d with d > 0, in lowest terms
Rat(n, d) == LET g == GCD(Abs(n), d) IN <<n \div g, d \div g>>

RZero == <<0, 1>>
ROne == <<1, 1>>
RHalf == <<1, 2>>

RAdd(a, b) == Rat(a[1] * b[2] + b[1] * a[2], a[2] * b[2])
RScale(k, a) == Rat(k * a[1], a[2])
RLe(a, b) == a[1] * b[2] <= b[1] * a[2]

\* ---- the Market document ----
\* what Market.findById resolves to when no document has the id
NoMarket ==
    [exists |-> FALSE, options |-> [yes |-> 0, no |-> 0],
     yesPrice |-> RHalf, noPrice |-> RHalf,
     totalLiquidity |-> 0, totalVolume |-> RZero, positions |-> <<>>,
     expiresAt |-> 0, isResolved |-> FALSE, resolvedOption |-> "unset",
     viewCount |-> 0]

\* a creation that also takes resolvedOption from the request body
NewMarket_FromBody(e) ==
    [exists |-> TRUE, options |-> [yes |-> 0, no |-> 0],
     yesPrice |-> RHalf, noPrice |-> RHalf,
     totalLiquidity |-> 0, totalVolume |-> RZero, positions |-> <<>>,
     expiresAt |-> e, isResolved |-> FALSE, resolvedOption |-> "yes",
     viewCount |-> 0]

\* Market.create of createMarket: the schema defaults plus the request's fields
NewMarket(e) ==
    [exists |-> TRUE, options |-> [yes |-> 0, no |-> 0],
     yesPrice |-> RHalf, noPrice |-> RHalf,
     totalLiquidity |-> 0, totalVolume |-> RZero, positions |-> <<>>,
     expiresAt |-> e, isResolved |-> FALSE, resolvedOption |-> "unset",
     viewCount |-> 0]

\* isExpired with the comparison turned round
isExpired_Reversed(m, t) == t < m.expiresAt

\* isExpired with the comparison negated
isExpired_NotYet(m, t) == t <= m.expiresAt

\* virtual isExpired: new Date() > this.expiresAt
isExpired(m, t) == t > m.expiresAt

\* a closed check that forgets isResolved
isClosed_ExpiredOnly(m, t) == isExpired(m, t)

\* tradeMarket: if (market.isExpired || market.isResolved)
isClosed(m, t) == isExpired(m, t) \/ m.isResolved

\* positions.filter(p => p.option === o).reduce((sum, p) => sum + p.shares, 0)
RECURSIVE SharesOf(_, _)
SharesOf(ps, o) ==
    IF ps = <<>> THEN 0
    ELSE (IF Head(ps).option = o THEN Head(ps).shares ELSE 0) + SharesOf(Tail(ps), o)

\* updatePrices with the two ratios assigned the wrong way round
updatePrices_Swapped(m) ==
    LET yesShares == SharesOf(m.positions, "yes")
        noShares == SharesOf(m.positions, "no")
        total == yesShares + noShares
    IN IF total > 0
       THEN [m EXCEPT !.yesPrice = Rat(noShares, total),
                      !.noPrice = Rat(yesShares, total)]
       ELSE m

\* updatePrices that forgets to move noPrice
updatePrices_YesOnly(m) ==
    LET yesShares == SharesOf(m.positions, "yes")
        total == yesShares + SharesOf(m.positions, "no")
    IN IF total > 0 THEN [m EXCEPT !.yesPrice = Rat(yesShares, total)] ELSE m

\* marketSchema.methods.updatePrices
updatePrices(m) ==
    LET yesShares == SharesOf(m.positions, "yes")
        noShares == SharesOf(m.positions, "no")
        total == yesShares + noShares
    IN IF total > 0
       THEN [m EXCEPT !.yesPrice = Rat(yesShares, total),
                      !.noPrice = Rat(noShares, total)]
       ELSE m

\* a buy that reads the price after the prices were updated
Buy_PostTradePrice(m, u, o, s) ==
    LET moved == updatePrices([m EXCEPT !.positions = Append(@,
                       [user |-> u, option |-> o, shares |-> s,
                        averagePrice |-> RZero, investedAmount |-> RZero])])
        price == IF o = "yes" THEN moved.yesPrice ELSE moved.noPrice
        cost == RScale(s, price)
    IN [moved EXCEPT !.positions[Len(moved.positions)].averagePrice = price,
                     !.positions[Len(moved.positions)].investedAmount = cost,
                     !.totalVolume = RAdd(@, cost)]

\* a buy that adds the bought shares to totalLiquidity as well
Buy_FundsLiquidity(m, u, o, s) ==
    LET price == IF o = "yes" THEN m.yesPrice ELSE m.noPrice
        cost == RScale(s, price)
        pushed == [m EXCEPT !.positions = Append(@,
                       [user |-> u, option |-> o, shares |-> s,
                        averagePrice |-> price, investedAmount |-> cost]),
                            !.totalVolume = RAdd(@, cost),
                            !.totalLiquidity = @ + s]
    IN updatePrices(pushed)

\* the body of `if (action === 'buy')` in tradeMarket, on the loaded document
Buy(m, u, o, s) ==
    LET price == IF o = "yes" THEN m.yesPrice ELSE m.noPrice
        cost == RScale(s, price)
        pushed == [m EXCEPT !.positions = Append(@,
                       [user |-> u, option |-> o, shares |-> s,
                        averagePrice |-> price, investedAmount |-> cost]),
                            !.totalVolume = RAdd(@, cost)]
    IN updatePrices(pushed)

\* positionSchema without `min: 0` on shares
ValidPosition_NoMin(p) == p.option \in {"yes", "no"}

\* positionSchema validators: option enum, shares min 0
ValidPosition(p) == p.option \in {"yes", "no"} /\ p.shares >= 0

\* price validators with exclusive bounds
ValidPrice_Exclusive(x) == ~RLe(x, RZero) /\ ~RLe(ROne, x)

\* marketSchema validators on yesPrice / noPrice: min 0, max 1
ValidPrice(x) == RLe(RZero, x) /\ RLe(x, ROne)

VARIABLES now, market, pc, body, snap, doc, resp, lastRead, settle

vars == <<now, market, pc, body, snap, doc, resp, lastRead, settle>>

\* the parties that may ask for a resolution
Resolvers == {"a1", "a2"}

\* no resolution was asked for yet: no answers, no payout records
NoSettle == [resp |-> [a \in Resolvers |-> "none"], payouts |-> <<>>]

NoBody == [user |-> "u1", option |-> "yes", shares |-> 0, action |-> "none"]

Init ==
    /\ now = 0
    /\ market = NoMarket
    /\ pc = [r \in Reqs |-> "idle"]
    /\ body = [r \in Reqs |-> NoBody]
    /\ snap = [r \in Reqs |-> NoMarket]
    /\ doc = [r \in Reqs |-> NoMarket]
    /\ resp = [r \in Reqs |-> "none"]
    /\ lastRead = <<>>
    /\ settle = NoSettle

\* time passes
Tick ==
    /\ now < MaxTime
    /\ now' = now + 1
    /\ UNCHANGED <<market, pc, body, snap, doc, resp, lastRead, settle>>

\* createMarket: POST /:id/markets
createMarket ==
    /\ ~market.exists
    /\ \E e \in ExpiryTimes : market' = NewMarket(e)
    /\ UNCHANGED <<now, pc, body, snap, doc, resp, lastRead, settle>>

\* the request bodies the clients send: every buy of an enum option by u1, and
\* one representative each of a buy by another user, a buy outside the enum, a
\* sell and a request without action
Bodies ==
    [user : {"u1"}, option : {"yes", "no"}, shares : ShareAmounts, action : {"buy"}]
    \cup {[user |-> "u2", option |-> "yes", shares |-> 1, action |-> "buy"],
          [user |-> "u1", option |-> "maybe", shares |-> 1, action |-> "buy"],
          [user |-> "u1", option |-> "yes", shares |-> 1, action |-> "sell"],
          [user |-> "u1", option |-> "yes", shares |-> 1, action |-> "none"]}

\* tradeMarket, first await: const market = await Market.findById(marketId)
Load(r) ==
    /\ pc[r] = "idle"
    /\ \A q \in Reqs : q < r => pc[q] # "idle"        \* slots are taken in order
    /\ \E b \in Bodies : body' = [body EXCEPT ![r] = b]
    /\ snap' = [snap EXCEPT ![r] = market]
    /\ doc' = [doc EXCEPT ![r] = market]
    /\ pc' = [pc EXCEPT ![r] = "loaded"]
    /\ resp' = [resp EXCEPT ![r] = "none"]
    /\ UNCHANGED <<now, market, lastRead, settle>>

\* a handler that takes every request that names an action for a buy
Execute_AnyAction(r) ==
    /\ pc[r] = "loaded"
    /\ IF ~doc[r].exists
       THEN /\ resp' = [resp EXCEPT ![r] = "notfound"]
            /\ pc' = [pc EXCEPT ![r] = "done"]
            /\ doc' = doc
       ELSE IF isClosed(doc[r], now)
       THEN /\ resp' = [resp EXCEPT ![r] = "closed"]
            /\ pc' = [pc EXCEPT ![r] = "done"]
            /\ doc' = doc
       ELSE /\ doc' = [doc EXCEPT ![r] =
                          IF body[r].action # "none"
                          THEN Buy(@, body[r].user, body[r].option, body[r].shares)
                          ELSE @]
            /\ pc' = [pc EXCEPT ![r] = "saving"]
            /\ resp' = resp
    /\ UNCHANGED <<now, market, body, snap, lastRead, settle>>

\* tradeMarket between the awaits: not-found and closed checks, the in-memory buy
Execute(r) ==
    /\ pc[r] = "loaded"
    /\ IF ~doc[r].exists
       THEN /\ resp' = [resp EXCEPT ![r] = "notfound"]
            /\ pc' = [pc EXCEPT ![r] = "done"]
            /\ doc' = doc
       ELSE IF isClosed(doc[r], now)
       THEN /\ resp' = [resp EXCEPT ![r] = "closed"]
            /\ pc' = [pc EXCEPT ![r] = "done"]
            /\ doc' = doc
       ELSE /\ doc' = [doc EXCEPT ![r] =
                          IF body[r].action = "buy"
                          THEN Buy(@, body[r].user, body[r].option, body[r].shares)
                          ELSE @]
            /\ pc' = [pc EXCEPT ![r] = "saving"]
            /\ resp' = resp
    /\ UNCHANGED <<now, market, body, snap, lastRead, settle>>

\* the positions the handler pushed onto the loaded document
Pushed(r) == SubSeq(doc[r].positions, Len(snap[r].positions) + 1, Len(doc[r].positions))

\* document.validate() of save(): the modified paths are validated
Validates(r) ==
    /\ \A i \in 1..Len(Pushed(r)) : ValidPosition(Pushed(r)[i])
    /\ doc[r].yesPrice # snap[r].yesPrice => ValidPrice(doc[r].yesPrice)
    /\ doc[r].noPrice # snap[r].noPrice => ValidPrice(doc[r].noPrice)

\* a save that writes the whole in-memory document back
ApplyDelta_Overwrite(m, r) == doc[r]

\* a save that $sets the whole positions array instead of pushing onto it
ApplyDelta_SetPositions(m, r) ==
    [m EXCEPT !.positions = doc[r].positions,
              !.totalVolume = IF doc[r].totalVolume # snap[r].totalVolume
                              THEN doc[r].totalVolume ELSE @,
              !.yesPrice = IF doc[r].yesPrice # snap[r].yesPrice
                           THEN doc[r].yesPrice ELSE @,
              !.noPrice = IF doc[r].noPrice # snap[r].noPrice
                          THEN doc[r].noPrice ELSE @]

\* the update save() sends: $push of the new positions, $set of the changed paths
ApplyDelta(m, r) ==
    [m EXCEPT !.positions = @ \o Pushed(r),
              !.totalVolume = IF doc[r].totalVolume # snap[r].totalVolume
                              THEN doc[r].totalVolume ELSE @,
              !.yesPrice = IF doc[r].yesPrice # snap[r].yesPrice
                           THEN doc[r].yesPrice ELSE @,
              !.noPrice = IF doc[r].noPrice # snap[r].noPrice
                          THEN doc[r].noPrice ELSE @,
              !.totalLiquidity = IF doc[r].totalLiquidity # snap[r].totalLiquidity
                                 THEN doc[r].totalLiquidity ELSE @,
              !.expiresAt = IF doc[r].expiresAt # snap[r].expiresAt
                            THEN doc[r].expiresAt ELSE @,
              !.isResolved = IF doc[r].isResolved # snap[r].isResolved
                             THEN doc[r].isResolved ELSE @,
              !.resolvedOption = IF doc[r].resolvedOption # snap[r].resolvedOption
                                 THEN doc[r].resolvedOption ELSE @]

\* a save that pushes the positions before it validates them
Save_PartialWrite(r) ==
    /\ pc[r] = "saving"
    /\ IF Validates(r)
       THEN /\ market' = ApplyDelta(market, r)
            /\ resp' = [resp EXCEPT ![r] = "ok"]
       ELSE /\ market' = [market EXCEPT !.positions = @ \o Pushed(r)]
            /\ resp' = [resp EXCEPT ![r] = "validation"]
    /\ pc' = [pc EXCEPT ![r] = "done"]
    /\ UNCHANGED <<now, body, snap, doc, lastRead, settle>>

\* tradeMarket, second await: await market.save(), then the response
Save(r) ==
    /\ pc[r] = "saving"
    /\ IF Validates(r)
       THEN /\ market' = ApplyDelta(market, r)
            /\ resp' = [resp EXCEPT ![r] = "ok"]
       ELSE /\ market' = market
            /\ resp' = [resp EXCEPT ![r] = "validation"]
    /\ pc' = [pc EXCEPT ![r] = "done"]
    /\ UNCHANGED <<now, body, snap, doc, lastRead, settle>>

Next ==
    \/ Tick
    \/ createMarket
    \/ \E r \in Reqs : Load(r)
    \/ \E r \in Reqs : Execute(r)
    \/ \E r \in Reqs : Save(r)

Spec == Init /\ [][Next]_vars

\* ---- requests served one after the other ----
\* one request more than the overlapping specification serves
SeqReqs == 1..(NumReqs + 1)

\* the bodies of the sequential scenarios: buys of 3 and 10 shares, sells of 3
\* and 5 shares of yes, and a sell by a user who never bought
SeqBodies ==
    {[user |-> "u1", option |-> "yes", shares |-> 3, action |-> "buy"],
     [user |-> "u1", option |-> "yes", shares |-> 10, action |-> "buy"],
     [user |-> "u1", option |-> "no", shares |-> 10, action |-> "buy"],
     [user |-> "u1", option |-> "yes", shares |-> 3, action |-> "sell"],
     [user |-> "u1", option |-> "yes", shares |-> 5, action |-> "sell"],
     [user |-> "u2", option |-> "yes", shares |-> 3, action |-> "sell"]}

InitSeq ==
    /\ now = 0
    /\ market = NoMarket
    /\ pc = [r \in SeqReqs |-> "idle"]
    /\ body = [r \in SeqReqs |-> NoBody]
    /\ snap = [r \in SeqReqs |-> NoMarket]
    /\ doc = [r \in SeqReqs |-> NoMarket]
    /\ resp = [r \in SeqReqs |-> "none"]
    /\ lastRead = <<>>
    /\ settle = NoSettle

\* no trade request is between its findById and the end of its save
NoneInFlight == \A q \in SeqReqs : pc[q] \notin {"loaded", "saving"}

\* tradeMarket, first await, of a request that arrives when no other is in flight
LoadSeq(r) ==
    /\ pc[r] = "idle"
    /\ NoneInFlight
    /\ \A q \in SeqReqs : q < r => pc[q] # "idle"
    /\ \E b \in SeqBodies : body' = [body EXCEPT ![r] = b]
    /\ snap' = [snap EXCEPT ![r] = market]
    /\ doc' = [doc EXCEPT ![r] = market]
    /\ pc' = [pc EXCEPT ![r] = "loaded"]
    /\ resp' = [resp EXCEPT ![r] = "none"]
    /\ UNCHANGED <<now, market, lastRead, settle>>

\* getCompanyMarkets that also counts the view
Read_CountsView(m) == [m EXCEPT !.viewCount = @ + 1]

\* what getCompanyMarkets leaves in the store: Market.find writes nothing
Read(m) == m

\* getCompanyMarkets: GET /:id/markets answers with the stored markets
getCompanyMarkets ==
    /\ lastRead' = IF market.exists THEN <<market>> ELSE <<>>
    /\ market' = Read(market)
    /\ UNCHANGED <<now, pc, body, snap, doc, resp, settle>>

NextSeq ==
    \/ Tick
    \/ createMarket
    \/ getCompanyMarkets
    \/ \E r \in SeqReqs : LoadSeq(r)
    \/ \E r \in SeqReqs : Execute(r)
    \/ \E r \in SeqReqs : Save(r)

SpecSeq == InitSeq /\ [][NextSeq]_vars

\* ---- three requests that may overlap ----
\* the bodies of the overlapping buys: one share of either option
OverBodies ==
    [user : {"u1"}, option : {"yes", "no"}, shares : {1}, action : {"buy"}]

\* tradeMarket, first await, of a request that may arrive while others are in flight
LoadOver(r) ==
    /\ pc[r] = "idle"
    /\ \A q \in SeqReqs : q < r => pc[q] # "idle"
    /\ \E b \in OverBodies : body' = [body EXCEPT ![r] = b]
    /\ snap' = [snap EXCEPT ![r] = market]
    /\ doc' = [doc EXCEPT ![r] = market]
    /\ pc' = [pc EXCEPT ![r] = "loaded"]
    /\ resp' = [resp EXCEPT ![r] = "none"]
    /\ UNCHANGED <<now, market, lastRead, settle>>

NextOver ==
    \/ Tick
    \/ createMarket
    \/ \E r \in SeqReqs : LoadOver(r)
    \/ \E r \in SeqReqs : Execute(r)
    \/ \E r \in SeqReqs : Save(r)

SpecOver == InitSeq /\ [][NextOver]_vars

\* ---- resolution and settlement (spec section 4.4) ----
Outcomes == {"yes", "no", "invalid"}

\* a winner paid its stake instead of its shares
Payout_AtCost(p, o) ==
    IF o = "invalid" \/ p.option = o THEN p.investedAmount ELSE RZero

\* an invalid market settled like a market nobody won
Payout_NoRefund(p, o) ==
    IF p.option = o THEN <<p.shares, 1>> ELSE RZero

\* the payout of position p when the market resolves to o: the cost basis when
\* o is invalid, one unit per share on the winning outcome, nothing otherwise
Payout(p, o) ==
    IF o = "invalid" THEN p.investedAmount
    ELSE IF p.option = o THEN <<p.shares, 1>>
    ELSE RZero

\* one payout record per position of the market
Payouts(m, o) == [i \in 1..Len(m.positions) |-> Payout(m.positions[i], o)]

\* a precondition that lets a resolved market resolve again
CanResolve_Again(m) == m.exists

\* precondition of Resolve: the market is Open or Expired
CanResolve(m) == m.exists /\ ~m.isResolved

\* Resolve(marketId, outcome, resolverId), one atomic unit per market, ordered
\* with the trades of that market
Resolve(a, o) ==
    /\ settle.resp[a] = "none"
    /\ NoneInFlight
    /\ market.exists
    /\ IF CanResolve(market)
       THEN /\ market' = [market EXCEPT !.isResolved = TRUE, !.resolvedOption = o]
            /\ settle' = [resp |-> [settle.resp EXCEPT ![a] = "ok"],
                          payouts |-> Payouts(market, o)]
       ELSE /\ market' = market
            /\ settle' = [settle EXCEPT !.resp[a] = "AlreadyResolved"]
    /\ UNCHANGED <<now, pc, body, snap, doc, resp, lastRead>>

NextRes ==
    \/ Tick
    \/ createMarket
    \/ \E r \in SeqReqs : LoadSeq(r)
    \/ \E r \in SeqReqs : Execute(r)
    \/ \E r \in SeqReqs : Save(r)
    \/ \E a \in Resolvers, o \in Outcomes : Resolve(a, o)

SpecRes == InitSeq /\ [][NextRes]_vars

\* ---- notions the properties below share ----
Last(ps) == ps[Len(ps)]

\* request r was answered 200 'Trade executed' for a buy
AcceptedBuy(r) == pc[r] = "done" /\ resp[r] = "ok" /\ body[r].action = "buy"

\* the trade of body b executed alone on market m
Serial(m, b) == IF b.action = "buy" THEN Buy(m, b.user, b.option, b.shares) ELSE m

\* the part of a market the trade claims speak of
Ledger(m) == <<m.positions, m.totalVolume, m.yesPrice, m.noPrice>>

\* r's step out of "saving" is an accepted buy
SavesBuy(r) ==
    pc[r] = "saving" /\ pc'[r] = "done" /\ resp'[r] = "ok" /\ body[r].action = "buy"

\* ---- C1 ----
\* C1: when N >= 1 trade requests, each buying 1 share of yes, have all completed
\* on one market (the other slots unused), the yes shares totalled over the
\* market's positions exceed the total before the first of them loaded by
\* exactly N, whatever the interleaving of their load, execute and save steps.
C1_NoLostPosition ==
    \A S \in SUBSET Reqs :
        (/\ S # {}
         /\ \A r \in S : AcceptedBuy(r) /\ body[r].option = "yes" /\ body[r].shares = 1
         /\ \A r \in Reqs \ S : pc[r] = "idle")
        => SharesOf(market.positions, "yes")
               = SharesOf(snap[1].positions, "yes") + Cardinality(S)

\* two buys of 1 yes share that both loaded the same stored state have completed
C1_Witness ==
    /\ NumReqs >= 2
    /\ AcceptedBuy(1) /\ AcceptedBuy(2)
    /\ \A r \in {1, 2} : body[r].option = "yes" /\ body[r].shares = 1
    /\ snap[1] = snap[2]
    /\ \A r \in Reqs \ {1, 2} : pc[r] = "idle"
    /\ SharesOf(market.positions, "yes") = SharesOf(snap[1].positions, "yes") + 2

\* ---- C2 ----
\* C2: when two trades on the market have both completed, the stored positions,
\* totalVolume, yesPrice and noPrice are those of running the two trades one
\* after the other, in one of the two orders, from the state the first loaded.
C2_Serialized ==
    \A r1, r2 \in Reqs :
        (/\ r1 < r2
         /\ pc[r1] = "done" /\ resp[r1] = "ok"
         /\ pc[r2] = "done" /\ resp[r2] = "ok"
         /\ \A r \in Reqs \ {r1, r2} : pc[r] = "idle")
        => Ledger(market) \in
               {Ledger(Serial(Serial(snap[r1], body[r1]), body[r2])),
                Ledger(Serial(Serial(snap[r1], body[r2]), body[r1]))}

\* ---- C3 ----
\* C3: in every reachable state of an unresolved market, yesPrice + noPrice = 1
\* and both prices lie in [0, 1].
C3_PricesSumToOne ==
    (market.exists /\ ~market.isResolved)
        => /\ RAdd(market.yesPrice, market.noPrice) = ROne
           /\ ValidPrice(market.yesPrice)
           /\ ValidPrice(market.noPrice)

\* two buys that both loaded the empty market are stored, the price is off 0.5
C3_Witness ==
    /\ market.exists
    /\ market.yesPrice # RHalf
    /\ \E r1, r2 \in Reqs :
          /\ r1 # r2
          /\ AcceptedBuy(r1) /\ AcceptedBuy(r2)
          /\ snap[r1].positions = <<>> /\ snap[r2].positions = <<>>
          /\ Len(market.positions) >= 2

\* ---- C4 ----
\* C4: no step lowers the stored totalVolume of the market.
C4_VolumeNeverDecreases ==
    [][market.exists => RLe(market.totalVolume, market'.totalVolume)]_vars

\* ---- C5 ----
\* the spot price of the bought option on market m
SpotPrice(m, o) == IF o = "yes" THEN m.yesPrice ELSE m.noPrice

C6_OutcomeSharesGrow ==
    [][\A r \in Reqs : \A o \in {"yes", "no"} :
          (SavesBuy(r) /\ body[r].option \in {"yes", "no"})
              => market'.options[o] =
                     market.options[o] + (IF o = body[r].option THEN body[r].shares ELSE 0)
      ]_vars

\* ---- C7 ----
\* C7: the market never holds two positions of the same user in the same option.
C7_OnePositionPerOwnerOutcome ==
    \A i, j \in 1..Len(market.positions) :
        (i < j) => ~(/\ market.positions[i].user = market.positions[j].user
                     /\ market.positions[i].option = market.positions[j].option)

\* ---- C8 ----
\* C8: the stored market never has a negative share count: not in
\* options[].totalShares, not in any position, not in the per-option totals of
\* the positions.
C8_SharesNonNegative ==
    /\ market.options.yes >= 0
    /\ market.options.no >= 0
    /\ \A i \in 1..Len(market.positions) : market.positions[i].shares >= 0
    /\ SharesOf(market.positions, "yes") >= 0
    /\ SharesOf(market.positions, "no") >= 0

\* a buy of a negative amount and another trade have both been answered
C8_Witness ==
    /\ market.exists
    /\ Len(market.positions) > 0
    /\ \E r \in Reqs : /\ pc[r] = "done" /\ body[r].action = "buy" /\ body[r].shares < 0
                       /\ snap[r].exists /\ resp[r] = "validation"

\* ---- C9 ----
\* C9: a trade that reaches the closed check after the market's expiresAt is
\* answered 'Market is closed', ends there, and leaves the stored market as it
\* was.
C9_ExpiredTradeRejected ==
    [][\A r \in Reqs :
          (/\ pc[r] = "loaded" /\ pc'[r] # "loaded"
           /\ doc[r].exists /\ now > doc[r].expiresAt)
              => /\ resp'[r] = "closed"
                 /\ pc'[r] = "done"
                 /\ market' = market
      ]_vars

\* a buy was turned away as closed on a market that has traded before
C9_Witness ==
    \E r \in Reqs :
        /\ Len(market.positions) > 0
        /\ pc[r] = "done" /\ resp[r] = "closed" /\ body[r].action = "buy"
        /\ now > market.expiresAt
        /\ market = snap[r]

\* ---- C10 ----
\* C10: a trade that reaches the closed check at now >= expiresAt, the instant
\* now = expiresAt included, is answered 'Market is closed'.
C10_ClosedFromExpiryInstant ==
    [][\A r \in Reqs :
          (/\ pc[r] = "loaded" /\ pc'[r] # "loaded"
           /\ doc[r].exists /\ now >= doc[r].expiresAt)
              => resp'[r] = "closed"
      ]_vars

\* ---- notions of the sequential properties ----
\* request r of the sequential service was answered 200 'Trade executed'
Executed(r) == pc[r] = "done" /\ resp[r] = "ok"

\* the shares user u holds in option o over the positions ps
RECURSIVE Held(_, _, _)
Held(ps, u, o) ==
    IF ps = <<>> THEN 0
    ELSE (IF Head(ps).user = u /\ Head(ps).option = o THEN Head(ps).shares ELSE 0)
         + Held(Tail(ps), u, o)

\* ---- C11 ----
\* C11: a trade that reaches the closed check on a resolved market, expired or
\* not, is answered 'Market is closed', ends there, and leaves the stored
\* market, its positions included, as it was.
C11_ResolvedTradeRejected ==
    [][\A r \in SeqReqs :
          (/\ pc[r] = "loaded" /\ pc'[r] # "loaded"
           /\ market.exists /\ market.isResolved)
              => /\ resp'[r] = "closed"
                 /\ pc'[r] = "done"
                 /\ market' = market
      ]_vars

\* a buy was turned away on a resolved market that holds positions and has
\* not expired
C11_Witness ==
    \E r \in SeqReqs :
        /\ pc[r] = "done" /\ resp[r] = "closed" /\ body[r].action = "buy"
        /\ snap[r].isResolved
        /\ now <= market.expiresAt
        /\ Len(market.positions) > 0
        /\ market = snap[r]

\* ---- C12 ----
\* C12: a sell of more shares of an option than the caller holds in it is not
\* answered with success, and the stored market is as the request loaded it.
C12_OversellRejected ==
    \A r \in SeqReqs :
        (/\ pc[r] = "done" /\ body[r].action = "sell"
         /\ snap[r].exists /\ ~isClosed(snap[r], now)
         /\ Held(snap[r].positions, body[r].user, body[r].option) < body[r].shares
         /\ \A q \in SeqReqs : q > r => pc[q] = "idle")
        => (resp[r] # "ok" /\ market = snap[r])

\* ---- C13 ----
\* C13: when a holder of at least s shares of an option sells s of them and
\* the next request buys s shares of the same option for the same user, the
\* shares of that option totalled over the market's positions are what they
\* were before the sell.
C13_SellThenBuyRestores ==
    \A r \in SeqReqs :
        (/\ r + 1 \in SeqReqs
         /\ Executed(r) /\ body[r].action = "sell"
         /\ Held(snap[r].positions, body[r].user, body[r].option) >= body[r].shares
         /\ Executed(r + 1) /\ body[r + 1].action = "buy"
         /\ body[r + 1].user = body[r].user
         /\ body[r + 1].option = body[r].option
         /\ body[r + 1].shares = body[r].shares
         /\ \A q \in SeqReqs : q > r + 1 => pc[q] = "idle")
        => SharesOf(market.positions, body[r].option)
               = SharesOf(snap[r].positions, body[r].option)

\* ---- C14 ----
\* C14: a trade with shares <= 0 on an open market is not answered with
\* success, and no stored position has zero or negative shares.
C14_NonPositiveAmountRejected ==
    /\ \A r \in Reqs :
          (pc[r] = "done" /\ snap[r].exists /\ body[r].shares <= 0)
              => resp[r] # "ok"
    /\ \A i \in 1..Len(market.positions) : market.positions[i].shares > 0

\* ---- C15 ----
\* C15: a trade whose option is not yes/no, or whose action is not buy/sell
\* (a missing action included), is answered with an error.
C15_ClosedEnumsEnforced ==
    \A r \in Reqs :
        (/\ pc[r] = "done" /\ snap[r].exists
         /\ (body[r].option \notin {"yes", "no"} \/ body[r].action \notin {"buy", "sell"}))
        => resp[r] # "ok"

\* ---- C16 ----
\* C16: on a fresh market a buy of 10 yes costs 5 and leaves shares {10, 0},
\* prices {1, 0}; a buy of 10 no right after it costs 0 and leaves shares
\* {10, 10}, prices {0.5, 0.5}; totalVolume is 5 after both.
C16_Scenario ==
    \A r1, r2 \in SeqReqs :
        LET first == /\ Executed(r1)
                     /\ body[r1].action = "buy" /\ body[r1].option = "yes"
                     /\ body[r1].shares = 10
                     /\ snap[r1].positions = <<>>
            second == /\ first
                      /\ Executed(r2)
                      /\ body[r2].action = "buy" /\ body[r2].option = "no"
                      /\ body[r2].shares = 10
                      /\ Len(snap[r2].positions) = 1
        IN /\ (first /\ Len(market.positions) = 1)
              => /\ market.positions[1].investedAmount = <<5, 1>>
                 /\ SharesOf(market.positions, "yes") = 10
                 /\ SharesOf(market.positions, "no") = 0
                 /\ market.yesPrice = ROne /\ market.noPrice = RZero
                 /\ market.totalVolume = <<5, 1>>
           /\ (second /\ Len(market.positions) = 2)
              => /\ market.positions[2].investedAmount = RZero
                 /\ SharesOf(market.positions, "yes") = 10
                 /\ SharesOf(market.positions, "no") = 10
                 /\ market.yesPrice = RHalf /\ market.noPrice = RHalf
                 /\ market.totalVolume = <<5, 1>>

\* both buys of the scenario have been executed, the no buy after the yes buy
C16_Witness ==
    \E r1, r2 \in SeqReqs :
        /\ Executed(r1) /\ Executed(r2)
        /\ body[r1] = [user |-> "u1", option |-> "yes", shares |-> 10, action |-> "buy"]
        /\ body[r2] = [user |-> "u1", option |-> "no", shares |-> 10, action |-> "buy"]
        /\ snap[r1].positions = <<>>
        /\ Len(snap[r2].positions) = 1
        /\ Len(market.positions) = 2

\* ---- C17 ----
\* what a read of the store returns
Visible(m) == IF m.exists THEN <<m>> ELSE <<>>

RECURSIVE SumPaid(_, _, _, _)
SumPaid(ps, pay, o, i) ==
    IF i = 0 THEN RZero
    ELSE RAdd(IF ps[i].option = o THEN pay[i] ELSE RZero, SumPaid(ps, pay, o, i - 1))

\* the market was resolved to outcome o and its payouts were computed
ResolvedTo(o) == market.exists /\ market.isResolved /\ market.resolvedOption = o

\* ---- C18 ----
\* C18: after a resolution to yes or no there is one payout per position, the
\* payouts to the positions of the winning option sum to their shares, and
\* every position of the other option is paid 0.
C18_SettlementSound ==
    \A w \in {"yes", "no"} :
        ResolvedTo(w)
            => /\ Len(settle.payouts) = Len(market.positions)
               /\ SumPaid(market.positions, settle.payouts, w, Len(market.positions))
                      = <<SharesOf(market.positions, w), 1>>
               /\ \A i \in 1..Len(market.positions) :
                      market.positions[i].option # w => settle.payouts[i] = RZero

\* a market with positions on both sides was resolved to the side whose
\* shares are not its stakes
C18_Witness ==
    /\ ResolvedTo("yes")
    /\ SharesOf(market.positions, "yes") > 0
    /\ SharesOf(market.positions, "no") > 0
    /\ \E i \in 1..Len(market.positions) :
          /\ market.positions[i].option = "yes"
          /\ market.positions[i].investedAmount # <<market.positions[i].shares, 1>>

\* ---- C19 ----
\* C19: after a resolution to invalid every position is paid exactly its
\* investedAmount, whatever its option and shares.
C19_InvalidRefundsCost ==
    ResolvedTo("invalid")
        => /\ Len(settle.payouts) = Len(market.positions)
           /\ \A i \in 1..Len(market.positions) :
                  settle.payouts[i] = market.positions[i].investedAmount

\* an invalid market refunded positions on both sides, one of them bought for 0
C19_Witness ==
    /\ ResolvedTo("invalid")
    /\ \E i, j \in 1..Len(market.positions) :
          /\ market.positions[i].option = "yes" /\ market.positions[j].option = "no"
          /\ market.positions[j].investedAmount = RZero
          /\ settle.payouts[i] = market.positions[i].investedAmount
          /\ settle.payouts[i] # <<market.positions[i].shares, 1>>

\* ---- C20 ----
\* C20: a Resolve on a market that is already resolved is answered
\* AlreadyResolved and changes neither the market nor the payouts, and of the
\* resolution attempts on the market at most one succeeds, exactly one once
\* all have been answered.
C20_ResolvesOnce ==
    /\ [](/\ Cardinality({a \in Resolvers : settle.resp[a] = "ok"}) <= 1
          /\ (\A a \in Resolvers : settle.resp[a] # "none")
                 => Cardinality({a \in Resolvers : settle.resp[a] = "ok"}) = 1)
    /\ [][\A a \in Resolvers :
             (settle.resp[a] = "none" /\ settle'.resp[a] # "none" /\ market.isResolved)
                 => /\ settle'.resp[a] = "AlreadyResolved"
                    /\ market' = market
                    /\ settle'.payouts = settle.payouts
         ]_vars

\* both resolvers were answered, the second with AlreadyResolved, on a market
\* with payouts
C20_Witness ==
    /\ \E a, b \in Resolvers : settle.resp[a] = "ok" /\ settle.resp[b] = "AlreadyResolved"
    /\ market.isResolved
    /\ Len(settle.payouts) > 0

\* ---- notions of the trade-outcome properties ----
\* r's step is the check of an existing market that is neither expired nor
\* resolved at that instant
ChecksOpen(r) ==
    /\ pc[r] = "loaded" /\ pc'[r] # "loaded"
    /\ doc[r].exists /\ now <= doc[r].expiresAt /\ ~doc[r].isResolved

\* r's step is the end of its save
EndsSave(r) == pc[r] = "saving" /\ pc'[r] = "done"

\* a body that is no buy, or a buy of a whole number >= 0 of yes or no shares
WellFormed(b) ==
    b.action = "buy" => (b.option \in {"yes", "no"} /\ b.shares >= 0)

\* ---- C21 ----
\* C21: a trade request on an existing market that is neither expired nor
\* resolved at its check goes on to its save and is answered 'Trade
\* executed', whatever its body.
C21_OpenTradeSucceeds ==
    [][\A r \in Reqs :
          /\ ChecksOpen(r) => pc'[r] = "saving"
          /\ EndsSave(r) => resp'[r] = "ok"
      ]_vars

\* C21 as amended: a trade request on an existing market that is neither
\* expired nor resolved at its check goes on to its save, and is answered
\* 'Trade executed' when it is no buy or a buy of shares >= 0 of yes or no.
C21_WellFormedOpenTradeSucceeds ==
    [][\A r \in Reqs :
          /\ ChecksOpen(r) => pc'[r] = "saving"
          /\ (EndsSave(r) /\ WellFormed(body[r])) => resp'[r] = "ok"
      ]_vars

\* a request without action and a buy that moved the price to 1 were both
\* answered 'Trade executed'
C21_Witness ==
    \E r, q \in Reqs :
        /\ pc[r] = "done" /\ resp[r] = "ok" /\ body[r].action = "none"
        /\ AcceptedBuy(q) /\ body[q].shares > 0
        /\ doc[q].yesPrice = ROne

\* ---- C22 ----
\* C22: in every stored state of the market the prices are the pricing
\* function of the shares held over its positions: yes/(yes+no) and
\* no/(yes+no), or 0.5 and 0.5 when yes+no = 0.
C22_PriceMatchesShares ==
    market.exists =>
        LET yes == SharesOf(market.positions, "yes")
            no == SharesOf(market.positions, "no")
        IN IF yes + no = 0
           THEN market.yesPrice = RHalf /\ market.noPrice = RHalf
           ELSE /\ market.yesPrice = Rat(yes, yes + no)
                /\ market.noPrice = Rat(no, yes + no)

\* ---- C23 ----
\* C23: the save of an accepted buy of s > 0 shares of option o does not lower
\* the stored price of o and does not raise the stored price of the other
\* option.
C23_PriceMovesTowardBuy ==
    [][\A r \in SeqReqs :
          (/\ EndsSave(r) /\ resp'[r] = "ok"
           /\ body[r].action = "buy" /\ body[r].shares > 0)
              => LET o == body[r].option
                     other == IF o = "yes" THEN "no" ELSE "yes"
                 IN /\ RLe(SpotPrice(market, o), SpotPrice(market', o))
                    /\ RLe(SpotPrice(market', other), SpotPrice(market, other))
      ]_vars

\* ---- C24 ----
\* C24: resolvedOption is set only on a resolved market, a market is created
\* unresolved with no resolvedOption, and no read, trade step (of an accepted
\* or a rejected trade) or tick changes isResolved or resolvedOption.
C24_ResolvedOnlyByResolution ==
    /\ [](market.resolvedOption # "unset" => market.isResolved)
    /\ [][IF market.exists
          THEN /\ market'.isResolved = market.isResolved
               /\ market'.resolvedOption = market.resolvedOption
          ELSE ~market'.isResolved /\ market'.resolvedOption = "unset"
         ]_vars

\* an unresolved market after its creation, an accepted buy, the passing of
\* expiresAt, a trade rejected as closed and a read
C24_Witness ==
    /\ market.exists /\ ~market.isResolved
    /\ now > market.expiresAt
    /\ lastRead = <<market>>
    /\ \E r, q \in SeqReqs :
          /\ Executed(r) /\ body[r].action = "buy"
          /\ pc[q] = "done" /\ resp[q] = "closed"

\* ---- C25 ----
\* C25: once a trade on the market was rejected as closed, every trade that
\* arrives later is rejected as closed too; no step changes expiresAt,
\* clears isResolved, removes the market or turns the clock back.
C25_NeverReopens ==
    /\ [](\A r, q \in SeqReqs :
             (r < q /\ pc[r] = "done" /\ resp[r] = "closed" /\ pc[q] = "done")
                 => resp[q] = "closed")
    /\ [][market.exists
             => /\ market'.exists
                /\ market'.expiresAt = market.expiresAt
                /\ market.isResolved => market'.isResolved
                /\ now' >= now
         ]_vars

\* a trade was rejected on the expired market, the market was then resolved,
\* and a later trade was rejected again
C25_Witness ==
    \E r, q \in SeqReqs :
        /\ r < q
        /\ pc[r] = "done" /\ resp[r] = "closed" /\ ~snap[r].isResolved
        /\ pc[q] = "done" /\ resp[q] = "closed" /\ snap[q].isResolved
        /\ Len(market.positions) > 0

\* ---- C26 ----
\* C26: the stored totalLiquidity is the one the market was created with (the
\* schema default 0), and no step on an existing market changes it.
C26_LiquidityFixed ==
    /\ [](market.exists => market.totalLiquidity = 0)
    /\ [][market.exists => market'.totalLiquidity = market.totalLiquidity]_vars

\* the market has been bought on, sold on and read
C26_Witness ==
    /\ market.exists
    /\ lastRead = <<market>>
    /\ \E r, q \in SeqReqs :
          /\ Executed(r) /\ body[r].action = "buy"
          /\ Executed(q) /\ body[q].action = "sell"
    /\ market.totalVolume # RZero

\* ---- C27 ----
\* the investedAmount of the positions ps, summed
RECURSIVE SumInvested(_)
SumInvested(ps) ==
    IF ps = <<>> THEN RZero ELSE RAdd(Head(ps).investedAmount, SumInvested(Tail(ps)))

\* C27: in every stored state totalVolume is the sum of investedAmount over
\* the market's positions, and every position has investedAmount = shares x
\* averagePrice.
C27_VolumeIsSumOfStakes ==
    market.exists
        => /\ market.totalVolume = SumInvested(market.positions)
           /\ \A i \in 1..Len(market.positions) :
                  market.positions[i].investedAmount
                      = RScale(market.positions[i].shares, market.positions[i].averagePrice)

\* ---- C28 ----
\* the record the buy of request r pushes: the caller, the option and the
\* shares of the body, priced at the spot price the request loaded
Record(r) ==
    LET price == SpotPrice(snap[r], body[r].option)
    IN [user |-> body[r].user, option |-> body[r].option, shares |-> body[r].shares,
        averagePrice |-> price, investedAmount |-> RScale(body[r].shares, price)]

\* C28: the save of an accepted buy appends exactly its record to the stored
\* positions, and every other step on an existing market leaves the stored
\* positions as they are.
C28_PositionsAppendOnly ==
    [][market.exists
          => IF \E r \in Reqs : SavesBuy(r)
             THEN \A r \in Reqs :
                      SavesBuy(r) => market'.positions = Append(market.positions, Record(r))
             ELSE market'.positions = market.positions
      ]_vars

\* two buys that loaded the empty market are both stored, the second priced
\* at the price it loaded and not at the price stored when it saved
C28_Witness ==
    /\ AcceptedBuy(1) /\ AcceptedBuy(2)
    /\ snap[1].positions = <<>> /\ snap[2].positions = <<>>
    /\ Len(market.positions) = 2
    /\ \E r \in {1, 2} :
          /\ Last(market.positions) = Record(r)
          /\ body[r].option = "no" /\ body[r].shares > 0
          /\ market.positions[1].option = "yes" /\ market.positions[1].shares > 0

\* ---- C29 ----
\* C29: a trade that is no buy, checked on an existing market that is neither
\* expired nor resolved, goes on to its save, is answered 'Trade executed',
\* and its save leaves positions, totalVolume, yesPrice and noPrice as stored.
C29_NonBuyChangesNothing ==
    [][\A r \in Reqs :
          body[r].action # "buy"
              => /\ ChecksOpen(r) => pc'[r] = "saving" /\ doc'[r] = doc[r]
                 /\ EndsSave(r) => resp'[r] = "ok" /\ Ledger(market') = Ledger(market)
      ]_vars

\* a sell that loaded the market before a buy was stored has been answered
\* 'Trade executed' and the buy is still stored
C29_Witness ==
    \E r, q \in Reqs :
        /\ pc[r] = "done" /\ resp[r] = "ok" /\ body[r].action = "sell"
        /\ AcceptedBuy(q) /\ body[q].shares > 0
        /\ snap[r].positions = <<>>
        /\ Len(market.positions) = 1
        /\ market.totalVolume # RZero

\* ---- C30 ----
\* C30: the save of a buy of negative shares or of an option outside yes/no
\* is answered with a validation error and leaves the stored market exactly
\* as it was.
C30_FailedSaveWritesNothing ==
    [][\A r \in Reqs :
          (/\ EndsSave(r) /\ body[r].action = "buy"
           /\ (body[r].shares < 0 \/ body[r].option \notin {"yes", "no"}))
              => /\ resp'[r] = "validation"
                 /\ market' = market
      ]_vars

\* a buy outside the option enum failed its save on a market that another
\* buy has traded on since the failed one loaded it
C30_Witness ==
    \E r \in Reqs :
        /\ pc[r] = "done" /\ resp[r] = "validation"
        /\ body[r].option = "maybe"
        /\ Len(doc[r].positions) = 1
        /\ Len(market.positions) = 1
        /\ market.positions[1].option \in {"yes", "no"}

====
